---------------------------- MODULE Spec2Model ----------------------------
(***************************************************************************)
(* DP83826 Ethernet PHY driver (drivers/phy/dp83826_driver.c).             *)
(*                                                                         *)
(* The driver's operations are operators on a machine record               *)
(*   m = [iface, dev, trace, ret, rc]                                      *)
(* (the NetInterface fields the driver touches, the PHY device behind the  *)
(* management bus, the calls made to collaborators so far in the current   *)
(* operation, the value of the last register read, and the error code      *)
(* once the operation has returned one).  The actions call the operations  *)
(* from the host's contexts; the PHY link changes on its own.              *)
(***************************************************************************)
EXTENDS Integers, Sequences, FiniteSets

VARIABLES
  iface,       \* NetInterface: phyAddr, linkState, linkSpeed, duplexMode,
               \* phyEvent, smiDriver / extIntDriver (TRUE: not NULL)
  dev,         \* the PHY device: link, speed and duplex bits, pending
               \* link-change interrupt, reset progress, written registers
  pc,          \* "idle", or "init_wait" inside dp83826Init's reset wait
  op,          \* the operation that has just returned, or is running
               \* (pc # "idle"); "none" once the link has changed since
  pre,         \* iface when that operation was called
  trace,       \* the collaborator calls of that operation, in order
  ret,         \* what that operation returned
  initCalled,  \* dp83826Init has been called at least once
  tickEv,      \* events raised by tick since the PHY link bit last changed
  staleTicks   \* ticks since then made while linkState # PHY link bit

vars == <<iface, dev, pc, op, pre, trace, ret, initCalled, tickEv, staleTicks>>

(***************************************************************************)
(* Bounds of the model.                                                    *)
(***************************************************************************)
MaxResetReads == 2
MaxCount == 2

\* PHY addresses the host may configure (uint8_t): the two edges of the
\* range check.
PhyAddrs == {31, 32}

(***************************************************************************)
(* Register map of the chip (dp83826_driver.h).                            *)
(***************************************************************************)
DP83826_PHY_ADDR == 0

DP83826_BMCR == 0
DP83826_BMSR == 1
DP83826_PHYSTS == 16
DP83826_PHYSCR == 17
DP83826_MISR1 == 18

DP83826_BMCR_RESET == 32768
DP83826_BMSR_LINK_STATUS == 4
DP83826_PHYSTS_DUPLEX_STATUS == 4
DP83826_PHYSTS_SPEED_STATUS == 2
DP83826_PHYSTS_LINK_STATUS == 1
DP83826_PHYSCR_INT_EN == 2
DP83826_PHYSCR_INT_OE == 1
DP83826_MISR1_LINK_INT == 8192
DP83826_MISR1_LINK_INT_EN == 32

\* value & mask, for a mask of one bit
BitAnd(value, mask) == ((value \div mask) % 2) * mask

(***************************************************************************)
(* The PHY device, as seen through the management bus.                     *)
(***************************************************************************)
\* What the device may do with a reset: clear the reset bit after `left`
\* more reads of the control register, or never.
ResetOutcomes ==
  [left : 0..MaxResetReads, stuck : {FALSE}] \cup {[left |-> 0, stuck |-> TRUE]}

DevInReset(d) == d.resetStuck \/ d.resetLeft > 0

DevReadValue(d, address) ==
  IF address = DP83826_BMCR THEN
    (IF DevInReset(d) THEN DP83826_BMCR_RESET ELSE 0)
  ELSE IF address = DP83826_BMSR THEN
    (IF d.link THEN DP83826_BMSR_LINK_STATUS ELSE 0)
  ELSE IF address = DP83826_PHYSTS THEN
    (IF d.link THEN DP83826_PHYSTS_LINK_STATUS ELSE 0)
    + (IF d.speed THEN DP83826_PHYSTS_SPEED_STATUS ELSE 0)
    + (IF d.duplex THEN DP83826_PHYSTS_DUPLEX_STATUS ELSE 0)
  ELSE IF address = DP83826_PHYSCR THEN d.physcr
  ELSE IF address = DP83826_MISR1 THEN
    (IF d.linkInt THEN DP83826_MISR1_LINK_INT ELSE 0) + d.misrEn
  ELSE 0

\* Reading the interrupt status register acknowledges the interrupt; the
\* reset bit clears itself as the control register is polled.
DevAfterRead(d, address) ==
  IF address = DP83826_MISR1 THEN [d EXCEPT !.linkInt = FALSE]
  ELSE IF address = DP83826_BMCR /\ d.resetLeft > 0
    THEN [d EXCEPT !.resetLeft = @ - 1]
  ELSE d

DevAfterWrite(d, address, data, r) ==
  IF address = DP83826_BMCR /\ BitAnd(data, DP83826_BMCR_RESET) # 0 THEN
    [d EXCEPT !.resetLeft = r.left, !.resetStuck = r.stuck,
              !.link = FALSE, !.speed = FALSE, !.duplex = FALSE,
              !.physcr = 0, !.misrEn = 0, !.linkInt = FALSE]
  ELSE IF address = DP83826_PHYSCR THEN [d EXCEPT !.physcr = data]
  ELSE IF address = DP83826_MISR1 THEN [d EXCEPT !.misrEn = data % 256]
  ELSE d

(***************************************************************************)
(* Calls to the collaborators.                                             *)
(***************************************************************************)
\* A transfer on the management bus, as the transport sees it.
Call(m, fn, opcode, address, data) ==
  [fn |-> fn, opcode |-> opcode, phy |-> m.iface.phyAddr,
   reg |-> address, data |-> data]

\* Any other call, with the interface as the callee finds it.
Note(m, fn) ==
  [m EXCEPT !.trace = Append(@, [fn |-> fn, iface |-> m.iface])]

osSetEvent(m) == Note(m, "osSetEvent")

nicNotifyLinkChange(m) == Note(m, "nicNotifyLinkChange")

\* Sequencing: F applied to the machine that m has left.
Then(m, F(_)) == CHOOSE r \in {F(x) : x \in {m}} : TRUE

(***************************************************************************)
(* Register access.                                                        *)
(***************************************************************************)
dp83826WritePhyReg(m, address, data, r) ==
  LET fn == IF m.iface.smiDriver THEN "smi.writePhyReg"
            ELSE "nic.writePhyReg"
  IN [m EXCEPT
        !.trace = Append(@, Call(m, fn, "SMI_OPCODE_WRITE", address, data)),
        !.dev = DevAfterWrite(@, address, data, r)]

\* Mutant: the read goes to the MAC whether or not there is an SMI driver.
dp83826ReadPhyReg_ViaNic(m, address) ==
  LET data == DevReadValue(m.dev, address)
  IN [m EXCEPT
        !.trace = Append(@, Call(m, "nic.readPhyReg", "SMI_OPCODE_READ",
                                 address, data)),
        !.dev = DevAfterRead(@, address),
        !.ret = data]

dp83826ReadPhyReg(m, address) ==
  LET fn == IF m.iface.smiDriver THEN "smi.readPhyReg"
            ELSE "nic.readPhyReg"
      data == DevReadValue(m.dev, address)
  IN [m EXCEPT
        !.trace = Append(@, Call(m, fn, "SMI_OPCODE_READ", address, data)),
        !.dev = DevAfterRead(@, address),
        !.ret = data]

(***************************************************************************)
(* dp83826DumpPhyReg: for(i = 0; i < 32; i++) read register i.             *)
(***************************************************************************)
RECURSIVE DumpFrom(_, _)
DumpFrom(m, i) ==
  IF i < 32
    THEN Then(dp83826ReadPhyReg(m, i), LAMBDA m1 : DumpFrom(m1, i + 1))
    ELSE m

\* Mutant: the loop starts at register 1.
dp83826DumpPhyReg_FromOne(m) == DumpFrom(m, 1)

dp83826DumpPhyReg(m) == DumpFrom(m, 0)

(***************************************************************************)
(* dp83826Init, up to the reset write; then one turn of the reset wait,    *)
(* which either stays in the loop or runs the rest of the function.        *)
(***************************************************************************)
NoReset == [left |-> 0, stuck |-> FALSE]

\* Mutant: the range check lets address 32 through.
dp83826InitBegin_OffByOne(m, r) ==
  Then(IF m.iface.phyAddr > 32
         THEN [m EXCEPT !.iface.phyAddr = DP83826_PHY_ADDR]
         ELSE m, LAMBDA m1 :
  Then(IF m1.iface.smiDriver THEN Note(m1, "smi.init") ELSE m1, LAMBDA m2 :
  Then(IF m2.iface.extIntDriver THEN Note(m2, "extInt.init") ELSE m2,
       LAMBDA m3 :
  dp83826WritePhyReg(m3, DP83826_BMCR, DP83826_BMCR_RESET, r))))

dp83826InitBegin(m, r) ==
  Then(IF m.iface.phyAddr >= 32
         THEN [m EXCEPT !.iface.phyAddr = DP83826_PHY_ADDR]
         ELSE m, LAMBDA m1 :
  Then(IF m1.iface.smiDriver THEN Note(m1, "smi.init") ELSE m1, LAMBDA m2 :
  Then(IF m2.iface.extIntDriver THEN Note(m2, "extInt.init") ELSE m2,
       LAMBDA m3 :
  dp83826WritePhyReg(m3, DP83826_BMCR, DP83826_BMCR_RESET, r))))

\* Mutant: the event is set and signalled before the interrupt is
\* configured.
dp83826InitRest_EventFirst(m) ==
  Then(dp83826DumpPhyReg(m), LAMBDA m1 :
  Then([m1 EXCEPT !.iface.phyEvent = TRUE], LAMBDA m2 :
  Then(osSetEvent(m2), LAMBDA m3 :
  Then(dp83826WritePhyReg(m3, DP83826_PHYSCR,
         DP83826_PHYSCR_INT_EN + DP83826_PHYSCR_INT_OE, NoReset), LAMBDA m4 :
  Then(dp83826WritePhyReg(m4, DP83826_MISR1,
         DP83826_MISR1_LINK_INT_EN, NoReset), LAMBDA m5 :
  [m5 EXCEPT !.rc = "NO_ERROR"])))))

dp83826InitRest(m) ==
  Then(dp83826DumpPhyReg(m), LAMBDA m1 :
  Then(dp83826WritePhyReg(m1, DP83826_PHYSCR,
         DP83826_PHYSCR_INT_EN + DP83826_PHYSCR_INT_OE, NoReset), LAMBDA m2 :
  Then(dp83826WritePhyReg(m2, DP83826_MISR1,
         DP83826_MISR1_LINK_INT_EN, NoReset), LAMBDA m3 :
  Then([m3 EXCEPT !.iface.phyEvent = TRUE], LAMBDA m4 :
  Then(osSetEvent(m4), LAMBDA m5 :
  [m5 EXCEPT !.rc = "NO_ERROR"])))))

\* Mutant: the control register is read once more when the wait is over.
dp83826InitPoll_ExtraRead(m) ==
  Then(dp83826ReadPhyReg(m, DP83826_BMCR), LAMBDA m1 :
  IF BitAnd(m1.ret, DP83826_BMCR_RESET) # 0 THEN m1
  ELSE dp83826InitRest(dp83826ReadPhyReg(m1, DP83826_BMCR)))

\* Mutant: the wait loops while the reset bit is clear.
dp83826InitPoll_Inverted(m) ==
  Then(dp83826ReadPhyReg(m, DP83826_BMCR), LAMBDA m1 :
  IF BitAnd(m1.ret, DP83826_BMCR_RESET) = 0 THEN m1
  ELSE dp83826InitRest(m1))

dp83826InitPoll(m) ==
  Then(dp83826ReadPhyReg(m, DP83826_BMCR), LAMBDA m1 :
  IF BitAnd(m1.ret, DP83826_BMCR_RESET) # 0 THEN m1
  ELSE dp83826InitRest(m1))

\* TRUE: the function has not returned, the wait goes on
InResetWait(m) == m.rc = "running"

(***************************************************************************)
(* dp83826Tick                                                             *)
(***************************************************************************)
\* Mutant: tick polls whether or not there is an interrupt line.
dp83826Tick_AlwaysPolls(m) ==
  LET m1 == dp83826ReadPhyReg(m, DP83826_BMSR)
      linkState == BitAnd(m1.ret, DP83826_BMSR_LINK_STATUS) # 0
  IN IF linkState # m1.iface.linkState THEN
       osSetEvent([m1 EXCEPT !.iface.phyEvent = TRUE])
     ELSE m1

\* Mutant: the link-up branch is missing.
dp83826Tick_NoLinkUp(m) ==
  IF ~m.iface.extIntDriver THEN
    LET m1 == dp83826ReadPhyReg(m, DP83826_BMSR)
        linkState == BitAnd(m1.ret, DP83826_BMSR_LINK_STATUS) # 0
    IN IF ~linkState /\ m1.iface.linkState THEN
         osSetEvent([m1 EXCEPT !.iface.phyEvent = TRUE])
       ELSE m1
  ELSE m

\* Mutant: the link-down branch is missing.
dp83826Tick_NoLinkDown(m) ==
  IF ~m.iface.extIntDriver THEN
    LET m1 == dp83826ReadPhyReg(m, DP83826_BMSR)
        linkState == BitAnd(m1.ret, DP83826_BMSR_LINK_STATUS) # 0
    IN IF linkState /\ ~m1.iface.linkState THEN
         osSetEvent([m1 EXCEPT !.iface.phyEvent = TRUE])
       ELSE m1
  ELSE m

\* Mutant: the link-up branch does not compare with the stored state.
dp83826Tick_LevelUp(m) ==
  IF ~m.iface.extIntDriver THEN
    LET m1 == dp83826ReadPhyReg(m, DP83826_BMSR)
        linkState == BitAnd(m1.ret, DP83826_BMSR_LINK_STATUS) # 0
    IN IF linkState THEN
         osSetEvent([m1 EXCEPT !.iface.phyEvent = TRUE])
       ELSE IF ~linkState /\ m1.iface.linkState THEN
         osSetEvent([m1 EXCEPT !.iface.phyEvent = TRUE])
       ELSE m1
  ELSE m

\* Mutant: tick stores the link state it has polled.
dp83826Tick_StoresLink(m) ==
  IF ~m.iface.extIntDriver THEN
    LET m1 == dp83826ReadPhyReg(m, DP83826_BMSR)
        linkState == BitAnd(m1.ret, DP83826_BMSR_LINK_STATUS) # 0
    IN IF linkState # m1.iface.linkState THEN
         osSetEvent([m1 EXCEPT !.iface.phyEvent = TRUE,
                               !.iface.linkState = linkState])
       ELSE m1
  ELSE m

dp83826Tick(m) ==
  IF ~m.iface.extIntDriver THEN
    LET m1 == dp83826ReadPhyReg(m, DP83826_BMSR)
        value == m1.ret
        linkState == BitAnd(value, DP83826_BMSR_LINK_STATUS) # 0
    IN IF linkState /\ ~m1.iface.linkState THEN
         osSetEvent([m1 EXCEPT !.iface.phyEvent = TRUE])
       ELSE IF ~linkState /\ m1.iface.linkState THEN
         osSetEvent([m1 EXCEPT !.iface.phyEvent = TRUE])
       ELSE m1
  ELSE m

(***************************************************************************)
(* dp83826EnableIrq, dp83826DisableIrq                                     *)
(***************************************************************************)
\* Mutant: enabling also rewrites the chip's interrupt-enable bit.
dp83826EnableIrq_WritesChip(m) ==
  IF m.iface.extIntDriver THEN
    Note(dp83826WritePhyReg(m, DP83826_MISR1, DP83826_MISR1_LINK_INT_EN,
                            NoReset), "extInt.enableIrq")
  ELSE m

dp83826EnableIrq(m) ==
  IF m.iface.extIntDriver THEN Note(m, "extInt.enableIrq") ELSE m

dp83826DisableIrq(m) ==
  IF m.iface.extIntDriver THEN Note(m, "extInt.disableIrq") ELSE m

(***************************************************************************)
(* dp83826EventHandler                                                     *)
(***************************************************************************)
\* Mutant: the two speeds are exchanged.
DecodeSpeed_Swapped(status) ==
  IF BitAnd(status, DP83826_PHYSTS_SPEED_STATUS) # 0
    THEN "NIC_LINK_SPEED_100MBPS"
    ELSE "NIC_LINK_SPEED_10MBPS"

DecodeSpeed(status) ==
  IF BitAnd(status, DP83826_PHYSTS_SPEED_STATUS) # 0
    THEN "NIC_LINK_SPEED_10MBPS"
    ELSE "NIC_LINK_SPEED_100MBPS"

\* Mutant: the two duplex modes are exchanged.
DecodeDuplex_Swapped(status) ==
  IF BitAnd(status, DP83826_PHYSTS_DUPLEX_STATUS) # 0
    THEN "NIC_HALF_DUPLEX_MODE"
    ELSE "NIC_FULL_DUPLEX_MODE"

DecodeDuplex(status) ==
  IF BitAnd(status, DP83826_PHYSTS_DUPLEX_STATUS) # 0
    THEN "NIC_FULL_DUPLEX_MODE"
    ELSE "NIC_HALF_DUPLEX_MODE"

\* Mutant: the MAC is reconfigured before linkState is updated.
LinkUpBranch_ConfigFirst(m, status) ==
  LET m1 == [m EXCEPT !.iface.linkSpeed = DecodeSpeed(status)]
      m2 == [m1 EXCEPT !.iface.duplexMode = DecodeDuplex(status)]
      m3 == Note(m2, "nic.updateMacConfig")
  IN [m3 EXCEPT !.iface.linkState = TRUE]

LinkUpBranch(m, status) ==
  LET m1 == [m EXCEPT !.iface.linkSpeed = DecodeSpeed(status)]
      m2 == [m1 EXCEPT !.iface.duplexMode = DecodeDuplex(status)]
      m3 == [m2 EXCEPT !.iface.linkState = TRUE]
  IN Note(m3, "nic.updateMacConfig")

\* Mutant: the MAC is reconfigured on link down as well.
LinkDownBranch_MacConfig(m) ==
  Note([m EXCEPT !.iface.linkState = FALSE], "nic.updateMacConfig")

\* Mutant: the speed and duplex mode are forgotten on link down.
LinkDownBranch_Forgets(m) ==
  [m EXCEPT !.iface.linkState = FALSE,
            !.iface.linkSpeed = "NIC_LINK_SPEED_UNKNOWN",
            !.iface.duplexMode = "NIC_UNKNOWN_DUPLEX_MODE"]

LinkDownBranch(m) == [m EXCEPT !.iface.linkState = FALSE]

\* Mutant: the notification is outside the link-change test.
dp83826EventHandler_AlwaysNotify(m) ==
  LET m1 == dp83826ReadPhyReg(m, DP83826_MISR1)
  IN IF BitAnd(m1.ret, DP83826_MISR1_LINK_INT) # 0 THEN
       LET m2 == dp83826ReadPhyReg(m1, DP83826_PHYSTS)
           status == m2.ret
           m3 == IF BitAnd(status, DP83826_PHYSTS_LINK_STATUS) # 0
                   THEN LinkUpBranch(m2, status)
                   ELSE LinkDownBranch(m2)
       IN nicNotifyLinkChange(m3)
     ELSE nicNotifyLinkChange(m1)

\* Mutant: the notification is made only when linkState has changed.
dp83826EventHandler_NotifyOnChange(m) ==
  LET m1 == dp83826ReadPhyReg(m, DP83826_MISR1)
  IN IF BitAnd(m1.ret, DP83826_MISR1_LINK_INT) # 0 THEN
       LET m2 == dp83826ReadPhyReg(m1, DP83826_PHYSTS)
           status == m2.ret
           m3 == IF BitAnd(status, DP83826_PHYSTS_LINK_STATUS) # 0
                   THEN LinkUpBranch(m2, status)
                   ELSE LinkDownBranch(m2)
       IN IF m3.iface.linkState # m.iface.linkState
            THEN nicNotifyLinkChange(m3) ELSE m3
     ELSE m1

dp83826EventHandler(m) ==
  LET m1 == dp83826ReadPhyReg(m, DP83826_MISR1)
  IN IF BitAnd(m1.ret, DP83826_MISR1_LINK_INT) # 0 THEN
       LET m2 == dp83826ReadPhyReg(m1, DP83826_PHYSTS)
           status == m2.ret
           m3 == IF BitAnd(status, DP83826_PHYSTS_LINK_STATUS) # 0
                   THEN LinkUpBranch(m2, status)
                   ELSE LinkDownBranch(m2)
       IN nicNotifyLinkChange(m3)
     ELSE m1

(***************************************************************************)
(* The state machine.                                                      *)
(***************************************************************************)
Init ==
  /\ iface \in [phyAddr : PhyAddrs, linkState : {FALSE},
                linkSpeed : {"NIC_LINK_SPEED_UNKNOWN"},
                duplexMode : {"NIC_UNKNOWN_DUPLEX_MODE"},
                phyEvent : {FALSE},
                smiDriver : BOOLEAN, extIntDriver : BOOLEAN]
  /\ dev = [link |-> FALSE, speed |-> FALSE, duplex |-> FALSE,
            linkInt |-> FALSE, resetLeft |-> 0, resetStuck |-> FALSE,
            physcr |-> 0, misrEn |-> 0]
  /\ pc = "idle"
  /\ op = "none"
  /\ pre = iface
  /\ trace = <<>>
  /\ ret = "void"
  /\ initCalled = FALSE
  /\ tickEv = 0
  /\ staleTicks = 0

\* The machine as an operation finds it when it is called.
Entry ==
  [iface |-> iface, dev |-> dev, trace |-> <<>>, ret |-> 0, rc |-> "running"]

\* The machine inside a running operation.
Current ==
  [iface |-> iface, dev |-> dev, trace |-> trace, ret |-> 0, rc |-> "running"]

Sat(n) == IF n < MaxCount THEN n + 1 ELSE n

Raised(t) == \E i \in 1..Len(t) : t[i].fn = "osSetEvent"

\* A void operation, called and run to its return.
Run(name, m) ==
  /\ pc = "idle"
  /\ op' = name
  /\ pre' = iface
  /\ iface' = m.iface
  /\ dev' = m.dev
  /\ trace' = m.trace
  /\ ret' = "void"
  /\ UNCHANGED <<pc, initCalled>>

InitCall ==
  /\ pc = "idle"
  /\ \E r \in ResetOutcomes :
       LET m == dp83826InitBegin(Entry, r)
       IN /\ iface' = m.iface
          /\ dev' = m.dev
          /\ trace' = m.trace
  /\ pc' = "init_wait"
  /\ op' = "init"
  /\ pre' = iface
  /\ ret' = "running"
  /\ initCalled' = TRUE
  /\ IF dev.link THEN tickEv' = 0 /\ staleTicks' = 0
     ELSE UNCHANGED <<tickEv, staleTicks>>

\* The reads of a wait that never ends are recorded up to this length.
WaitTraceCap == MaxResetReads + 5

InitPoll ==
  /\ pc = "init_wait"
  /\ \E m \in {dp83826InitPoll(Current)} :
        IF InResetWait(m)
          THEN /\ trace' = IF Len(m.trace) > WaitTraceCap THEN trace
                           ELSE m.trace
               /\ dev' = m.dev
               /\ UNCHANGED <<iface, pc, ret>>
          ELSE /\ iface' = m.iface
               /\ dev' = m.dev
               /\ trace' = m.trace
               /\ ret' = m.rc
               /\ pc' = "idle"
  /\ UNCHANGED <<op, pre, initCalled, tickEv, staleTicks>>

Tick ==
  /\ LET m == dp83826Tick(Entry)
     IN /\ Run("tick", m)
        /\ tickEv' = IF Raised(m.trace) THEN Sat(tickEv) ELSE tickEv
  /\ staleTicks' = IF ~iface.extIntDriver /\ iface.linkState # dev.link
                     THEN Sat(staleTicks) ELSE staleTicks

EnableIrq ==
  /\ Run("enableIrq", dp83826EnableIrq(Entry))
  /\ UNCHANGED <<tickEv, staleTicks>>

DisableIrq ==
  /\ Run("disableIrq", dp83826DisableIrq(Entry))
  /\ UNCHANGED <<tickEv, staleTicks>>

OnEvent ==
  /\ Run("onEvent", dp83826EventHandler(Entry))
  /\ UNCHANGED <<tickEv, staleTicks>>

Dump ==
  /\ Run("dump", dp83826DumpPhyReg(Entry))
  /\ UNCHANGED <<tickEv, staleTicks>>

\* The host's dispatch loop takes the pending event before it calls the
\* event handler.
HostClearEvent ==
  /\ iface.phyEvent
  /\ Run("hostClear", [Entry EXCEPT !.iface.phyEvent = FALSE])
  /\ UNCHANGED <<tickEv, staleTicks>>

\* The link goes up, with the negotiated speed and duplex bits, or down,
\* the bits staying as they were.  The change is latched in the interrupt
\* status when the link-change interrupt is enabled.  A chip in reset has
\* no link.
LinkChange ==
  /\ ~DevInReset(dev)
  /\ \E s \in BOOLEAN, d \in BOOLEAN, latch \in BOOLEAN :
       /\ latch \/ BitAnd(dev.misrEn, DP83826_MISR1_LINK_INT_EN) = 0
       /\ dev.link => s = dev.speed /\ d = dev.duplex
       /\ dev' = [dev EXCEPT !.link = ~@, !.speed = s, !.duplex = d,
                             !.linkInt = latch \/ @]
  /\ tickEv' = 0
  /\ staleTicks' = 0
  /\ IF pc = "idle"
       THEN op' = "none" /\ pre' = iface /\ trace' = <<>> /\ ret' = "void"
       ELSE UNCHANGED <<op, pre, trace, ret>>
  /\ UNCHANGED <<iface, pc, initCalled>>

Next ==
  \/ InitCall
  \/ InitPoll
  \/ Tick
  \/ EnableIrq
  \/ DisableIrq
  \/ OnEvent
  \/ Dump
  \/ HostClearEvent
  \/ LinkChange

Spec == Init /\ [][Next]_vars

\* Bringing the interface up, again and again, while the link changes and
\* the host takes the pending event.  The bus transfers are blocking and
\* complete: a running init keeps polling.
InitNext ==
  \/ InitCall
  \/ InitPoll
  \/ HostClearEvent
  \/ LinkChange

InitSpec == Init /\ [][InitNext]_vars /\ WF_vars(InitPoll)

\* The host's dispatch loop, as one step: it takes the pending event and
\* calls the event handler, which runs to its return.
HostDispatch ==
  /\ pc = "idle"
  /\ iface.phyEvent
  /\ \E m \in {dp83826EventHandler([Entry EXCEPT !.iface.phyEvent = FALSE])} :
       /\ iface' = m.iface
       /\ dev' = m.dev
       /\ trace' = m.trace
  /\ op' = "onEvent"
  /\ pre' = [iface EXCEPT !.phyEvent = FALSE]
  /\ ret' = "void"
  /\ UNCHANGED <<pc, initCalled, tickEv, staleTicks>>

\* The interface is brought up once.
InitOnce == ~initCalled /\ InitCall

\* The polling path: an interface without an external-interrupt line and
\* with a PHY address of its own, brought up once, whose host calls tick
\* periodically and dispatches every pending event, one call at a time,
\* while the link changes and the registers may be dumped.
PollInit == Init /\ ~iface.extIntDriver /\ iface.phyAddr < 32

PollNext ==
  \/ InitOnce
  \/ InitPoll
  \/ Tick
  \/ HostDispatch
  \/ Dump
  \/ LinkChange

PollSpec ==
  /\ PollInit
  /\ [][PollNext]_vars
  /\ WF_vars(InitOnce)
  /\ WF_vars(InitPoll)
  /\ WF_vars(Tick)
  /\ WF_vars(HostDispatch)


(***************************************************************************)
(* Reading the trace of an operation.                                      *)
(***************************************************************************)
IsRead(e) == e.fn \in {"smi.readPhyReg", "nic.readPhyReg"}

IsWrite(e) == e.fn \in {"smi.writePhyReg", "nic.writePhyReg"}

Calls(t, fn) == Cardinality({i \in 1..Len(t) : t[i].fn = fn})

ReadsOf(t, address) ==
  Cardinality({i \in 1..Len(t) : IsRead(t[i]) /\ t[i].reg = address})

\* onEvent has returned and its read of the interrupt status had the
\* link-change bit set (TRUE) or clear (FALSE).
EventSaw(linkInt) ==
  /\ op = "onEvent"
  /\ Len(trace) >= 1
  /\ IsRead(trace[1])
  /\ trace[1].reg = DP83826_MISR1
  /\ (BitAnd(trace[1].data, DP83826_MISR1_LINK_INT) # 0) = linkInt

\* ... and its read of the PHY status register was the second call.
EventDecoded ==
  /\ EventSaw(TRUE)
  /\ Len(trace) >= 2
  /\ IsRead(trace[2])
  /\ trace[2].reg = DP83826_PHYSTS

StatusBit(mask) == BitAnd(trace[2].data, mask) # 0

\* tick has returned on the polling path, having read the basic status.
TickPolled ==
  /\ op = "tick"
  /\ ~pre.extIntDriver
  /\ Len(trace) >= 1
  /\ IsRead(trace[1])
  /\ trace[1].reg = DP83826_BMSR

TickLinkBit == BitAnd(trace[1].data, DP83826_BMSR_LINK_STATUS) # 0

(***************************************************************************)
(* C1: on the polling path a call of tick sets phyEvent and signals the    *)
(* host event channel if and only if the link-status bit it read from the  *)
(* basic status register differs from linkState at the call; when they     *)
(* are equal it leaves phyEvent as it was and signals nothing.             *)
(***************************************************************************)
C1_TickEventIffLinkDiffers ==
  (op = "tick" /\ ~pre.extIntDriver) =>
     /\ TickPolled
     /\ IF TickLinkBit # pre.linkState
          THEN iface.phyEvent /\ Calls(trace, "osSetEvent") = 1
          ELSE iface.phyEvent = pre.phyEvent /\ Calls(trace, "osSetEvent") = 0

C1_Witness ==
  /\ TickPolled
  /\ ~TickLinkBit
  /\ pre.linkState
  /\ ~pre.phyEvent
  /\ iface.phyEvent
  /\ Raised(trace)

(***************************************************************************)
(* C2 (as claimed): on the polling path tick raises the host event signal  *)
(* at most once per transition of the PHY link bit.                        *)
(***************************************************************************)
C2_AtMostOncePerTransition ==
  ~iface.extIntDriver => tickEv <= 1

(***************************************************************************)
(* C2 (amended): on the polling path tick raises the host event signal     *)
(* once for every tick made while linkState differs from the PHY link bit  *)
(* and never otherwise: since the last transition of the PHY link bit      *)
(* there are as many signals as there were such ticks.                     *)
(***************************************************************************)
C2_OncePerStaleTick ==
  ~iface.extIntDriver => tickEv = staleTicks

C2_Witness ==
  /\ TickPolled
  /\ tickEv = 1
  /\ staleTicks = 1
  /\ ~Raised(trace)
  /\ iface.linkState

(***************************************************************************)
(* C3 (as claimed): onEvent, with the link-change bit set and the link     *)
(* up, sets duplexMode to half-duplex if the duplex bit of the PHY status  *)
(* is set and to full-duplex if it is clear.                               *)
(***************************************************************************)
C3_DuplexHalfIfSet ==
  (EventDecoded /\ StatusBit(DP83826_PHYSTS_LINK_STATUS)) =>
     iface.duplexMode =
       IF StatusBit(DP83826_PHYSTS_DUPLEX_STATUS)
         THEN "NIC_HALF_DUPLEX_MODE" ELSE "NIC_FULL_DUPLEX_MODE"

(***************************************************************************)
(* C3 (amended): onEvent, with the link-change bit set and the link up,    *)
(* sets duplexMode to full-duplex if the duplex bit of the PHY status is   *)
(* set and to half-duplex if it is clear, for both values of the speed     *)
(* bit.                                                                    *)
(***************************************************************************)
C3_DuplexFullIfSet ==
  (op = "onEvent" /\ EventSaw(TRUE)) =>
     /\ EventDecoded
     /\ StatusBit(DP83826_PHYSTS_LINK_STATUS) =>
          iface.duplexMode =
            IF StatusBit(DP83826_PHYSTS_DUPLEX_STATUS)
              THEN "NIC_FULL_DUPLEX_MODE" ELSE "NIC_HALF_DUPLEX_MODE"

C3_Witness ==
  /\ EventDecoded
  /\ StatusBit(DP83826_PHYSTS_LINK_STATUS)
  /\ StatusBit(DP83826_PHYSTS_DUPLEX_STATUS)
  /\ StatusBit(DP83826_PHYSTS_SPEED_STATUS)
  /\ pre.duplexMode = "NIC_HALF_DUPLEX_MODE"
  /\ iface.duplexMode = "NIC_FULL_DUPLEX_MODE"

(***************************************************************************)
(* C4: onEvent, with the link-change bit set and the link up, sets         *)
(* linkSpeed to 10 Mbps if the speed bit of the PHY status is set and to   *)
(* 100 Mbps if it is clear, for both values of the duplex bit, and sets    *)
(* linkState to TRUE.                                                      *)
(***************************************************************************)
C4_SpeedDecode ==
  (EventDecoded /\ StatusBit(DP83826_PHYSTS_LINK_STATUS)) =>
     /\ iface.linkSpeed =
          IF StatusBit(DP83826_PHYSTS_SPEED_STATUS)
            THEN "NIC_LINK_SPEED_10MBPS" ELSE "NIC_LINK_SPEED_100MBPS"
     /\ iface.linkState = TRUE

C4_Witness ==
  /\ EventDecoded
  /\ StatusBit(DP83826_PHYSTS_LINK_STATUS)
  /\ StatusBit(DP83826_PHYSTS_SPEED_STATUS)
  /\ ~StatusBit(DP83826_PHYSTS_DUPLEX_STATUS)
  /\ ~pre.linkState
  /\ pre.linkSpeed = "NIC_LINK_SPEED_100MBPS"
  /\ iface.linkSpeed = "NIC_LINK_SPEED_10MBPS"

(***************************************************************************)
(* C5: updateMacConfig is called in an onEvent call exactly when the       *)
(* link-change bit was set and the PHY status read shows the link up, and  *)
(* then exactly once; no other operation calls it.                         *)
(***************************************************************************)
C5_MacConfigIffLinkUp ==
  Calls(trace, "nic.updateMacConfig") =
    IF EventDecoded /\ StatusBit(DP83826_PHYSTS_LINK_STATUS) THEN 1 ELSE 0

C5_Witness ==
  /\ EventDecoded
  /\ StatusBit(DP83826_PHYSTS_LINK_STATUS)
  /\ pre.linkState
  /\ Calls(trace, "nic.updateMacConfig") = 1

(***************************************************************************)
(* C6: onEvent, with the link-change bit clear, changes no field of the    *)
(* interface, and makes no call after the read of the interrupt status:    *)
(* no read of the PHY status, no updateMacConfig, no link-change           *)
(* notification.                                                           *)
(***************************************************************************)
C6_NoLinkIntNoEffect ==
  (op = "onEvent" /\ EventSaw(FALSE)) =>
     /\ iface = pre
     /\ Len(trace) = 1

C6_Witness ==
  /\ EventSaw(FALSE)
  /\ iface.phyEvent
  /\ iface.linkState

(***************************************************************************)
(* C7: onEvent, with the link-change bit set, calls the host link-change   *)
(* notification exactly once, link up or down, and also when the decoded   *)
(* linkState is the one stored before the call.                            *)
(***************************************************************************)
C7_NotifyOnceOnLinkInt ==
  (op = "onEvent" /\ EventSaw(TRUE)) =>
     Calls(trace, "nicNotifyLinkChange") = 1

C7_Witness ==
  /\ EventDecoded
  /\ ~StatusBit(DP83826_PHYSTS_LINK_STATUS)
  /\ ~pre.linkState
  /\ pre.linkSpeed # "NIC_LINK_SPEED_UNKNOWN"
  /\ Calls(trace, "nicNotifyLinkChange") = 1

(***************************************************************************)
(* C8: init, tick, enableIrq, disableIrq and dump leave linkState,         *)
(* linkSpeed and duplexMode as they found them, tick also when it detects  *)
(* a link difference and raises the event.                                 *)
(***************************************************************************)
C8_OnlyOnEventChangesLink ==
  op \in {"init", "tick", "enableIrq", "disableIrq", "dump"} =>
     /\ iface.linkState = pre.linkState
     /\ iface.linkSpeed = pre.linkSpeed
     /\ iface.duplexMode = pre.duplexMode

C8_Witness ==
  /\ TickPolled
  /\ TickLinkBit
  /\ Raised(trace)
  /\ ~iface.linkState
  /\ iface.linkSpeed = "NIC_LINK_SPEED_10MBPS"

(***************************************************************************)
(* C9: init replaces a phyAddr outside 0..31 by the chip default before    *)
(* its first register access and leaves one inside 0..31 alone; every      *)
(* register access of init, and of every operation after it, carries a     *)
(* PHY address in 0..31.                                                   *)
(***************************************************************************)
FixedAddr(a) == IF a \in 0..31 THEN a ELSE DP83826_PHY_ADDR

C9_PhyAddrInRange ==
  /\ op = "init" =>
       /\ iface.phyAddr = FixedAddr(pre.phyAddr)
       /\ \A i \in 1..Len(trace) :
            (IsRead(trace[i]) \/ IsWrite(trace[i])) =>
               trace[i].phy = FixedAddr(pre.phyAddr)
  /\ initCalled =>
       \A i \in 1..Len(trace) :
         (IsRead(trace[i]) \/ IsWrite(trace[i])) => trace[i].phy \in 0..31

C9_Witness ==
  /\ op = "init"
  /\ pc = "idle"
  /\ pre.phyAddr = 32
  /\ iface.phyAddr = DP83826_PHY_ADDR
  /\ IsWrite(trace[Len(trace) - 1])
  /\ trace[Len(trace) - 1].phy = DP83826_PHY_ADDR

(***************************************************************************)
(* C10: a call of init returns if and only if the device comes to return   *)
(* the control register with the reset bit clear; it then returns          *)
(* NO_ERROR.  While the reset bit reads set init stays in the wait, and    *)
(* inside the wait it has neither written the interrupt configuration nor  *)
(* set or signalled the event.                                             *)
(***************************************************************************)
InitWaitClean ==
  pc = "init_wait" =>
     /\ \A i \in 1..Len(trace) :
          IsWrite(trace[i]) => trace[i].reg = DP83826_BMCR
     /\ ~Raised(trace)
     /\ iface.phyEvent = pre.phyEvent

C10_InitTermination ==
  /\ (pc = "init_wait" /\ ~dev.resetStuck) ~> (pc = "idle" /\ op = "init")
  /\ [](op = "init" /\ pc = "idle" => ret = "NO_ERROR")
  /\ [][pc = "init_wait" /\ DevInReset(dev) => pc' = "init_wait"]_vars
  /\ []InitWaitClean

C10_Witness ==
  /\ op = "init"
  /\ pc = "idle"
  /\ ret = "NO_ERROR"
  /\ ReadsOf(trace, DP83826_BMCR) = MaxResetReads + 2
  /\ Raised(trace)

(***************************************************************************)
(* C11: every register read and write of every operation goes to the       *)
(* serial-management driver when there is one and to the MAC driver when   *)
(* there is none, with the read or write opcode, the interface's PHY       *)
(* address and the register address the operation asked for.               *)
(***************************************************************************)
IsBus(e) == IsRead(e) \/ IsWrite(e)

RoutedRight(e) ==
  /\ e.fn \in (IF pre.smiDriver THEN {"smi.readPhyReg", "smi.writePhyReg"}
               ELSE {"nic.readPhyReg", "nic.writePhyReg"})
  /\ e.opcode = IF IsRead(e) THEN "SMI_OPCODE_READ" ELSE "SMI_OPCODE_WRITE"
  /\ e.phy = iface.phyAddr

C11_TransportRouting ==
  /\ \A i \in 1..Len(trace) : IsBus(trace[i]) => RoutedRight(trace[i])
  /\ (op = "tick" /\ ~pre.extIntDriver) =>
        Len(trace) >= 1 /\ IsRead(trace[1]) /\ trace[1].reg = DP83826_BMSR
  /\ op = "onEvent" =>
        /\ Len(trace) >= 1 /\ IsRead(trace[1])
        /\ trace[1].reg = DP83826_MISR1
        /\ Len(trace) >= 2 =>
             IsRead(trace[2]) /\ trace[2].reg = DP83826_PHYSTS
  /\ op = "dump" =>
        \A i \in 1..Len(trace) : IsRead(trace[i]) /\ trace[i].reg = i - 1

C11_Witness ==
  /\ op = "onEvent"
  /\ pre.smiDriver
  /\ Len(trace) >= 2
  /\ trace[1].fn = "smi.readPhyReg"
  /\ trace[2].fn = "smi.readPhyReg"
  /\ trace[2].phy = DP83826_PHY_ADDR

(***************************************************************************)
(* C12: the detection path is decided by the external-interrupt-line       *)
(* driver alone: when there is one, tick makes no register access, leaves  *)
(* phyEvent as it was and signals nothing, whatever the device state and   *)
(* the stored linkState; when there is none, tick polls the basic status.  *)
(***************************************************************************)
C12_TickIdleWithIntLine ==
  op = "tick" =>
     IF pre.extIntDriver THEN trace = <<>> /\ iface = pre
     ELSE TickPolled

C12_Witness ==
  /\ op = "tick"
  /\ pre.extIntDriver
  /\ dev.link
  /\ ~iface.linkState
  /\ ~iface.phyEvent

(***************************************************************************)
(* C13: enableIrq and disableIrq call the external-interrupt-line driver's *)
(* enableIrq / disableIrq once when there is such a driver and do nothing  *)
(* when there is none; they make no register access and change no field    *)
(* of the interface.                                                       *)
(***************************************************************************)
IrqGateOnly(name, fn) ==
  op = name =>
     /\ iface = pre
     /\ IF pre.extIntDriver
          THEN Len(trace) = 1 /\ trace[1].fn = fn
          ELSE trace = <<>>

C13_IrqGate ==
  /\ IrqGateOnly("enableIrq", "extInt.enableIrq")
  /\ IrqGateOnly("disableIrq", "extInt.disableIrq")

C13_Witness ==
  /\ op = "enableIrq"
  /\ pre.extIntDriver
  /\ initCalled
  /\ Calls(trace, "extInt.enableIrq") = 1

(***************************************************************************)
(* C14: onEvent, with the link-change bit set and the link down in the     *)
(* PHY status, sets linkState to FALSE and leaves linkSpeed and            *)
(* duplexMode as they were, whatever the speed and duplex bits.            *)
(***************************************************************************)
C14_LinkDownKeepsSpeed ==
  (EventDecoded /\ ~StatusBit(DP83826_PHYSTS_LINK_STATUS)) =>
     /\ iface.linkState = FALSE
     /\ iface.linkSpeed = pre.linkSpeed
     /\ iface.duplexMode = pre.duplexMode

C14_Witness ==
  /\ EventDecoded
  /\ ~StatusBit(DP83826_PHYSTS_LINK_STATUS)
  /\ StatusBit(DP83826_PHYSTS_SPEED_STATUS)
  /\ StatusBit(DP83826_PHYSTS_DUPLEX_STATUS)
  /\ pre.linkState
  /\ iface.linkSpeed = "NIC_LINK_SPEED_100MBPS"
  /\ iface.duplexMode = "NIC_HALF_DUPLEX_MODE"
  /\ ~iface.linkState

(***************************************************************************)
(* The trace of an init that has returned.                                 *)
(***************************************************************************)
InitReturned == op = "init" /\ pc = "idle"

\* calls to the collaborators' own init, before the reset write
InitHead == (IF pre.smiDriver THEN 1 ELSE 0)
            + (IF pre.extIntDriver THEN 1 ELSE 0)

\* where the register dump starts
DumpAt == Len(trace) - 34

IsReadOf(e, address) == IsRead(e) /\ e.reg = address

IsWriteOf(e, address, data) ==
  IsWrite(e) /\ e.reg = address /\ e.data = data

\* reads of the control register that showed the reset bit set
SetReads ==
  Cardinality({i \in 1..Len(trace) :
     /\ IsReadOf(trace[i], DP83826_BMCR)
     /\ BitAnd(trace[i].data, DP83826_BMCR_RESET) # 0})

(***************************************************************************)
(* C15: init calls the serial-management init (if present), then the       *)
(* external-interrupt-line init (if present), writes the reset, waits,     *)
(* dumps the registers, writes the special control register (interrupt     *)
(* pin enabled, as output), writes the link-change interrupt enable, and   *)
(* only then sets phyEvent and signals the host event channel, once, on    *)
(* every init that returns.                                                *)
(***************************************************************************)
C15_InitOrder ==
  InitReturned =>
    LET n == Len(trace) IN
    /\ n >= InitHead + 37
    /\ pre.smiDriver => trace[1].fn = "smi.init"
    /\ pre.extIntDriver => trace[InitHead].fn = "extInt.init"
    /\ Calls(trace, "smi.init") = (IF pre.smiDriver THEN 1 ELSE 0)
    /\ Calls(trace, "extInt.init") = (IF pre.extIntDriver THEN 1 ELSE 0)
    /\ IsWriteOf(trace[InitHead + 1], DP83826_BMCR, DP83826_BMCR_RESET)
    /\ \A i \in (InitHead + 2)..(DumpAt - 1) :
         IsReadOf(trace[i], DP83826_BMCR)
    /\ \A r \in 0..31 : IsReadOf(trace[DumpAt + r], r)
    /\ IsWriteOf(trace[n - 2], DP83826_PHYSCR,
                 DP83826_PHYSCR_INT_EN + DP83826_PHYSCR_INT_OE)
    /\ IsWriteOf(trace[n - 1], DP83826_MISR1, DP83826_MISR1_LINK_INT_EN)
    /\ trace[n].fn = "osSetEvent"
    /\ trace[n].iface.phyEvent
    /\ Calls(trace, "osSetEvent") = 1
    /\ iface.phyEvent

C15_Witness ==
  /\ InitReturned
  /\ pre.smiDriver
  /\ pre.extIntDriver
  /\ pre.linkState
  /\ ~pre.phyEvent
  /\ iface.phyEvent
  /\ trace[Len(trace)].fn = "osSetEvent"

(***************************************************************************)
(* C16 (as claimed): when the control register shows the reset bit set on  *)
(* its first k reads and clear on the next, init makes exactly k+1 reads   *)
(* of the control register.                                                *)
(***************************************************************************)
C16_ExactlyKPlusOneReads ==
  InitReturned => ReadsOf(trace, DP83826_BMCR) = SetReads + 1

(***************************************************************************)
(* C16 (amended): when the control register shows the reset bit set on     *)
(* its first k reads and clear on the next, the reset wait of init makes   *)
(* exactly those k+1 reads, right after the reset write, and init then     *)
(* goes on; the register dump that follows reads the control register      *)
(* once more, so that init reads it k+2 times in all.                      *)
(***************************************************************************)
C16_WaitReadsKPlusOne ==
  InitReturned =>
    /\ DumpAt - 1 - (InitHead + 1) = SetReads + 1
    /\ \A i \in (InitHead + 2)..(DumpAt - 1) :
         /\ IsReadOf(trace[i], DP83826_BMCR)
         /\ (BitAnd(trace[i].data, DP83826_BMCR_RESET) # 0) = (i < DumpAt - 1)
    /\ IsReadOf(trace[DumpAt], DP83826_BMCR)
    /\ ReadsOf(trace, DP83826_BMCR) = SetReads + 2
    /\ trace[Len(trace)].fn = "osSetEvent"

C16_Witness ==
  /\ InitReturned
  /\ SetReads = 2
  /\ ReadsOf(trace, DP83826_BMCR) = 4
  /\ DumpAt - 1 - (InitHead + 1) = 3

(***************************************************************************)
(* C17 (as claimed): dump leaves the device as it found it: after dump     *)
(* every register, the pending link-change interrupt included, reads as    *)
(* it read during the dump.                                                *)
(***************************************************************************)
C17_DumpKeepsDevice ==
  (op = "dump" /\ Len(trace) = 32) =>
     \A r \in 0..31 : DevReadValue(dev, r) = trace[r + 1].data

(***************************************************************************)
(* C18: dump makes exactly 32 register reads, of the addresses 0 to 31 in  *)
(* ascending order, makes no write, changes no field of the interface,     *)
(* and returns.                                                            *)
(***************************************************************************)
C18_DumpReadsAll ==
  op = "dump" =>
     /\ pc = "idle"
     /\ Len(trace) = 32
     /\ \A i \in 1..Len(trace) : IsReadOf(trace[i], i - 1)
     /\ iface = pre

C18_Witness ==
  /\ op = "dump"
  /\ Len(trace) = 32
  /\ trace[DP83826_BMSR + 1].data = DP83826_BMSR_LINK_STATUS
  /\ trace[DP83826_MISR1 + 1].data # 0
  /\ iface.linkState

(***************************************************************************)
(* C20: inside onEvent, updateMacConfig finds linkState TRUE and the       *)
(* linkSpeed and duplexMode decoded from the PHY status read of the same   *)
(* call; the link-change notification finds linkState equal to the link    *)
(* bit of that read and, with the link up, comes after updateMacConfig.    *)
(***************************************************************************)
C20_EventOrder ==
  (op = "onEvent" /\ EventSaw(TRUE)) =>
    /\ EventDecoded
    /\ IF StatusBit(DP83826_PHYSTS_LINK_STATUS)
         THEN /\ Len(trace) = 4
              /\ trace[3].fn = "nic.updateMacConfig"
              /\ trace[3].iface.linkState
              /\ trace[3].iface.linkSpeed =
                   IF StatusBit(DP83826_PHYSTS_SPEED_STATUS)
                     THEN "NIC_LINK_SPEED_10MBPS"
                     ELSE "NIC_LINK_SPEED_100MBPS"
              /\ trace[3].iface.duplexMode =
                   IF StatusBit(DP83826_PHYSTS_DUPLEX_STATUS)
                     THEN "NIC_FULL_DUPLEX_MODE"
                     ELSE "NIC_HALF_DUPLEX_MODE"
              /\ trace[4].fn = "nicNotifyLinkChange"
              /\ trace[4].iface.linkState
         ELSE /\ Len(trace) = 3
              /\ trace[3].fn = "nicNotifyLinkChange"
              /\ ~trace[3].iface.linkState

C20_Witness ==
  /\ EventDecoded
  /\ StatusBit(DP83826_PHYSTS_LINK_STATUS)
  /\ ~pre.linkState
  /\ Len(trace) = 4
  /\ trace[3].fn = "nic.updateMacConfig"
  /\ trace[3].iface.linkState
  /\ trace[3].iface.linkSpeed # pre.linkSpeed

(***************************************************************************)
(* The polling path at rest, and the event handler missing a change.       *)
(***************************************************************************)
\* linkState agrees with the PHY and the last tick raised nothing
Settled ==
  /\ iface.linkState = dev.link
  /\ op = "tick" => ~Raised(trace)

\* onEvent has returned with linkState still different from the PHY link
\* bit, because its read of the interrupt status had the link-change bit
\* clear
EventMissed ==
  /\ EventSaw(FALSE)
  /\ iface.linkState # dev.link

\* the host is between two calls of the driver
HostRuns == pc = "idle"

(***************************************************************************)
(* C19: on the polling path, with tick called again and again and onEvent  *)
(* called after every pending event (the host never held for good inside   *)
(* init), if the PHY link bit stops changing and onEvent never finds the   *)
(* link-change bit clear while linkState differs from the PHY link bit,    *)
(* then eventually linkState equals the PHY link bit for good and tick     *)
(* raises no further event; and onEvent changes linkState only when it has *)
(* read the link-change bit set.                                           *)
(***************************************************************************)
C19_PollingConverges ==
  /\ (/\ []<>HostRuns
      /\ []~EventMissed
      /\ (<>[]dev.link \/ <>[]~dev.link)) => <>[]Settled
  /\ []((op = "onEvent" /\ iface.linkState # pre.linkState) => EventSaw(TRUE))

C19_Witness ==
  /\ EventDecoded
  /\ initCalled
  /\ ~iface.extIntDriver
  /\ tickEv >= 1
  /\ pre.linkState # dev.link
  /\ iface.linkState = dev.link

=============================================================================
